---- MODULE Spec2Model ----
(***************************************************************************)
(* A model of the skin-analysis backend (src/Backend/server.js and         *)
(* src/Backend/models/Analysis.js): the retry wrapper generateWithRetry,   *)
(* the two model endpoints built on it, and the CRUD endpoints over the    *)
(* Analysis collection.                                                    *)
(*                                                                         *)
(* JavaScript values are modelled as records of one shape (JVal below), so *)
(* that a request body, a stored document, a model response and an HTTP    *)
(* response body are all JSON values that can be compared.  A string is    *)
(* the sequence of its code units, read and written one by one.            *)
(***************************************************************************)
EXTENDS Integers, Sequences, FiniteSets, TLC

(***************************************************************************)
(* Bounds of the model.                                                    *)
(***************************************************************************)
\* requests in flight at once
NReq == 2
\* largest retries argument tried on a direct call of generateWithRetry
MaxRetries == 3
\* longest model text, in tokens
MaxLen == 5
\* documents ever created in the collection
MaxRecords == 1

(***************************************************************************)
(* Characters and strings.  A JavaScript string is the sequence of its     *)
(* UTF-16 code units, each a number in 0 .. 65535.  Str gives the string   *)
(* that a literal of this module spells.                                   *)
(***************************************************************************)
\* the printable ASCII characters 0x20 .. 0x5f and 0x61 .. 0x7e, in code order
AsciiLow == " !\"#$%&'()*+,-./0123456789:;<=>?@ABCDEFGHIJKLMNOPQRSTUVWXYZ[\\]^_"
AsciiHigh == "abcdefghijklmnopqrstuvwxyz{|}~"

\* the position of the one-character literal c in the literal s, 0 when it
\* is not there
Position(s, c) ==
  IF \E i \in 1..Len(s) : SubSeq(s, i, i) = c
  THEN CHOOSE i \in 1..Len(s) : SubSeq(s, i, i) = c
  ELSE 0

\* the code unit of a one-character literal
Ch(c) ==
  IF c = "\t" THEN 9 ELSE IF c = "\n" THEN 10
  ELSE IF c = "\f" THEN 12 ELSE IF c = "\r" THEN 13
  ELSE IF Position(AsciiLow, c) > 0 THEN 31 + Position(AsciiLow, c)
  ELSE 96 + Position(AsciiHigh, c)
\* the string a literal spells
Str(lit) == [i \in 1..Len(lit) |-> Ch(SubSeq(lit, i, i))]

\* the code units of the characters of the JSON grammar
Char ==
  [quote |-> 34, plus |-> 43, comma |-> 44, minus |-> 45,
   dot |-> 46, slash |-> 47, zero |-> 48, colon |-> 58,
   capitalE |-> 69, lbracket |-> 91, backslash |-> 92, rbracket |-> 93,
   b |-> 98, e |-> 101, f |-> 102, n |-> 110,
   r |-> 114, t |-> 116, u |-> 117, lbrace |-> 123,
   rbrace |-> 125]
\* the texts null, true, false, undefined and [object Object], and the
\* numeral of the largest array index, 2^32 - 2
Word ==
  [null |-> <<110, 117, 108, 108>>,
   true |-> <<116, 114, 117, 101>>,
   false |-> <<102, 97, 108, 115, 101>>,
   undefined |-> <<117, 110, 100, 101, 102, 105, 110, 101, 100>>,
   object |-> <<91, 111, 98, 106, 101, 99, 116, 32, 79, 98, 106, 101, 99, 116, 93>>,
   maxIndex |-> <<52, 50, 57, 52, 57, 54, 55, 50, 57, 52>>]

IsDigit(c) == c >= 48 /\ c <= 57
DigitVal(c) == c - 48
IsHex(c) == IsDigit(c) \/ (c >= 97 /\ c <= 102) \/ (c >= 65 /\ c <= 70)
HexVal(c) == IF IsDigit(c) THEN c - 48 ELSE IF c >= 97 THEN c - 87 ELSE c - 55

StartsWith(s, lit) == Len(s) >= Len(lit) /\ SubSeq(s, 1, Len(lit)) = lit
\* s without its first n characters
Drop(s, n) == IF n >= Len(s) THEN <<>> ELSE SubSeq(s, n + 1, Len(s))
Take(s, n) == IF n <= 0 THEN <<>> ELSE IF n >= Len(s) THEN s ELSE SubSeq(s, 1, n)

\* a <= b for two digit strings of one length
RECURSIVE DigitsLeq(_, _)
DigitsLeq(a, b) ==
  \/ a = <<>>
  \/ Head(a) < Head(b)
  \/ (Head(a) = Head(b) /\ DigitsLeq(Tail(a), Tail(b)))

\* the decimal numeral of a natural number
RECURSIVE NatText(_)
NatText(n) ==
  IF n < 10 THEN <<48 + n>>
  ELSE Append(NatText(n \div 10), 48 + (n % 10))

Zeros(n) == [i \in 1..n |-> 48]

(***************************************************************************)
(* JavaScript / JSON values.  A number is a double, kept as the shortest    *)
(* decimal that names it, the one Number.prototype.toString writes: its    *)
(* sign n (-1, 0 or 1), its digits s without a zero at either end, and its *)
(* exponent e; the value is n * s * 10^e.  Zero has no digits.             *)
(***************************************************************************)
JVal(t, n, s, m) == [t |-> t, n |-> n, e |-> 0, s |-> s, m |-> m]
\* the JavaScript value undefined (a missing property)
Undefined == JVal("undefined", 0, <<>>, <<>>)
JNull == JVal("null", 0, <<>>, <<>>)
JBool(b) == JVal("bool", IF b THEN 1 ELSE 0, <<>>, <<>>)
\* the number whose shortest decimal is d * 10^e, negated when neg: the
\* zeros at either end of the digit string d go
JDecimal(neg, d, e) ==
  LET nz == {i \in DOMAIN d : d[i] # Char.zero}
      lo == CHOOSE i \in nz : \A j \in nz : i <= j
      hi == CHOOSE i \in nz : \A j \in nz : j <= i
  IN IF nz = {} THEN JVal("num", 0, <<>>, <<>>)
     ELSE [JVal("num", IF neg THEN -1 ELSE 1, SubSeq(d, lo, hi), <<>>)
             EXCEPT !.e = e + Len(d) - hi]
\* the integer n
JNum(n) == JDecimal(n < 0, NatText(IF n < 0 THEN 0 - n ELSE n), 0)
\* Infinity, and -Infinity when neg
JInfinity(neg) == JVal("infinity", IF neg THEN -1 ELSE 1, <<>>, <<>>)
\* the string s, a sequence of code units
JStr(s) == JVal("str", 0, s, <<>>)
Member(k, v) == [k |-> k, v |-> v]

\* an array index: the canonical numeral of an integer in 0 .. 2^32 - 2
IsIndexKey(k) ==
  /\ k # <<>> /\ \A i \in DOMAIN k : IsDigit(k[i])
  /\ Len(k) = 1 \/ Head(k) # Char.zero
  /\ Len(k) < 10 \/ (Len(k) = 10 /\ DigitsLeq(k, Word.maxIndex))
IndexLess(a, b) == Len(a) < Len(b) \/ (Len(a) = Len(b) /\ a # b /\ DigitsLeq(a, b))

\* the own properties of an object whose members were written in the order m:
\* a key written again keeps its place and takes the last value; the array
\* indices come first, in ascending order, then the other keys as written
OwnMembers(m) ==
  LET firsts == SelectSeq([i \in DOMAIN m |-> i],
                          LAMBDA i : \A j \in 1..(i - 1) : m[j].k # m[i].k)
      last(k) == CHOOSE i \in DOMAIN m : m[i].k = k /\ \A j \in (i + 1)..Len(m) : m[j].k # k
      indices == SortSeq(SelectSeq(firsts, LAMBDA i : IsIndexKey(m[i].k)),
                         LAMBDA i, j : IndexLess(m[i].k, m[j].k))
      others == SelectSeq(firsts, LAMBDA i : ~IsIndexKey(m[i].k))
      order == indices \o others
  IN [i \in DOMAIN order |-> Member(m[order[i]].k, m[last(m[order[i]].k)].v)]

\* the members m after obj[k] = v
PutMember(m, k, v) == OwnMembers(Append(m, Member(k, v)))

\* an object: its members [k, v] in property order
Obj(m) == JVal("obj", 0, <<>>, OwnMembers(m))
\* an array: members keyed by position
Arr(m) == JVal("arr", 0, <<>>, m)
\* the array of the values vs
ArrOf(vs) == Arr([i \in DOMAIN vs |-> Member(NatText(i - 1), vs[i])])

\* obj[key], undefined when there is none
RECURSIVE Lookup(_, _)
Lookup(m, key) ==
  IF m = <<>> THEN Undefined
  ELSE IF m[Len(m)].k = key THEN m[Len(m)].v
  ELSE Lookup(SubSeq(m, 1, Len(m) - 1), key)

Get(o, key) == IF o.t = "obj" THEN Lookup(o.m, key) ELSE Undefined
Has(o, key) == Get(o, key) # Undefined
\* o with o[key] = v; an undefined v sets nothing
SetMember(o, key, v) == IF v = Undefined THEN o ELSE Obj(PutMember(o.m, key, v))

\* v == null in JavaScript: null or undefined
IsNullish(v) == v.t \in {"undefined", "null"}

(***************************************************************************)
(* Numbers as JavaScript reads and writes them: Number(numeral) is the     *)
(* double nearest to the numeral, and Number.prototype.toString writes the *)
(* shortest decimal that no other double is nearer to.  Both are computed  *)
(* exactly, on natural numbers of any size.                                *)
(***************************************************************************)
\* a natural number of any size is the sequence of its digits in base
\* IEEE.limb, the lowest first, without a zero at the high end (0 is <<>>);
\* 2^52 and 2^53 bound the significand of a normal double
IEEE ==
  [limb |-> 1000000,
   twoTo52 |-> <<370496, 599627, 4503>>,
   twoTo53 |-> <<740992, 199254, 9007>>]

\* carries: each number of x, with what is carried into it (c at the low end),
\* keeps its remainder by the base and carries the quotient on; s is the
\* remainders and c what is carried out at the high end
RECURSIVE Carry(_, _)
Carry(x, c) ==
  IF x = <<>> THEN [s |-> <<>>, c |-> c]
  ELSE IF Len(x) = 1
  THEN [s |-> <<(x[1] + c) % IEEE.limb>>, c |-> (x[1] + c) \div IEEE.limb]
  ELSE LET h == Len(x) \div 2
           lo == Carry(SubSeq(x, 1, h), c)
           hi == Carry(SubSeq(x, h + 1, Len(x)), lo.c)
       IN [s |-> lo.s \o hi.s, c |-> hi.c]

\* x without the zeros at its high end
BigNorm(x) ==
  LET top == CHOOSE i \in 0..Len(x) :
               (i = 0 \/ x[i] # 0) /\ \A j \in (i + 1)..Len(x) : x[j] = 0
  IN SubSeq(x, 1, top)

\* a * c + carry, for c and carry up to 1024
BigMul(a, c, carry) ==
  LET r == Carry([i \in DOMAIN a |-> a[i] * c], carry)
  IN BigNorm(r.s \o <<r.c>>)

\* a + b
BigAdd(a, b) ==
  LET at(x, i) == IF i <= Len(x) THEN x[i] ELSE 0
      n == IF Len(a) > Len(b) THEN Len(a) ELSE Len(b)
      r == Carry([i \in 1..n |-> at(a, i) + at(b, i)], 0)
  IN BigNorm(r.s \o <<r.c>>)

\* a - b, for a >= b
BigSub(a, b) ==
  BigNorm(Carry([i \in DOMAIN a |-> a[i] - (IF i <= Len(b) THEN b[i] ELSE 0)], 0).s)

\* a < b
BigLess(a, b) ==
  \/ Len(a) < Len(b)
  \/ /\ Len(a) = Len(b)
     /\ \E i \in DOMAIN a : a[i] < b[i] /\ \A j \in (i + 1)..Len(a) : a[j] = b[j]

\* a * 2^n (c = 2) or a * 10^n (c = 10): by up to 2^10 or 10^3 at a time,
\* the exponent halved at each step
RECURSIVE Times(_, _, _)
Times(a, c, n) ==
  IF n <= 0 \/ a = <<>> THEN a
  ELSE IF n <= (IF c = 2 THEN 10 ELSE 3) THEN BigMul(a, c ^ n, 0)
  ELSE Times(Times(a, c, n \div 2), c, n - (n \div 2))

\* the natural number that a string of digits spells: six digits to a limb
BigOfDigits(d) ==
  LET p == Zeros((6 - (Len(d) % 6)) % 6) \o d
      digit(i, j) == DigitVal(p[Len(p) - 6 * i + j])
  IN BigNorm([i \in 1..(Len(p) \div 6) |->
                digit(i, 1) * 100000 + digit(i, 2) * 10000 + digit(i, 3) * 1000
                + digit(i, 4) * 100 + digit(i, 5) * 10 + digit(i, 6)])

\* n / d as n' / d' * 2^e with d' <= n' < 2 d'.  A number of k decimal
\* digits lies between 10^(k-1) and 10^k, and log2(10) is 3.3219..., which
\* leaves a few exponents to try
Binade(n, d) ==
  LET digits(a) == 6 * (Len(a) - 1) + Len(NatText(a[Len(a)]))
      least(k) == ((k - 1) * 33219) \div 10000 - 1
      holds(e) ==
        /\ ~BigLess(Times(n, 2, 0 - e), Times(d, 2, e))
        /\ BigLess(Times(n, 2, 0 - e - 1), Times(d, 2, e + 1))
      at(e) == [n |-> Times(n, 2, 0 - e), d |-> Times(d, 2, e), e |-> e]
      among(k) == at(CHOOSE e \in least(k)..(least(k) + 9) : holds(e))
  IN among(digits(n) - digits(d))

\* long division in base 2 of r by d, for r < d: the first bits binary
\* places of r / d, as the natural number q, and the remainder; the places
\* are found half by half, and are zeros once nothing remains
RECURSIVE DivBits(_, _, _)
DivBits(r, d, bits) ==
  IF bits <= 0 THEN [q |-> <<>>, r |-> r]
  ELSE IF bits = 1
  THEN (IF BigLess(BigMul(r, 2, 0), d) THEN [q |-> <<>>, r |-> BigMul(r, 2, 0)]
        ELSE [q |-> <<1>>, r |-> BigSub(BigMul(r, 2, 0), d)])
  ELSE LET hi == DivBits(r, d, bits \div 2)
           lo == DivBits(hi.r, d, bits - (bits \div 2))
       IN IF hi.r = <<>> THEN [q |-> Times(hi.q, 2, bits - (bits \div 2)), r |-> <<>>]
          ELSE [q |-> BigAdd(Times(hi.q, 2, bits - (bits \div 2)), lo.q), r |-> lo.r]

\* the double nearest to m * 10^e10 for a natural m > 0, ties to the even one:
\* f * 2^e with f < 2^53 and 2^log2 the power of two at or next below it, or
\* zero, or infinity.  The quotient has 53 bits, or fewer below the normal
\* range, and is rounded by twice the remainder
NearestDouble(m, e10) ==
  LET double(kind, f, e, log2) == [kind |-> kind, f |-> f, e |-> e, log2 |-> log2]
      rounded(b, bits, f) ==
        IF f # IEEE.twoTo53 THEN double("finite", f, b.e - bits, b.e)
        ELSE IF b.e = 1023 THEN double("infinity", <<>>, 0, 0)
        ELSE double("finite", IEEE.twoTo52, b.e - bits + 1, b.e + 1)
      round(b, bits, q, twice) ==
        rounded(b, bits,
                IF BigLess(b.d, twice) \/ (twice = b.d /\ Head(q) % 2 = 1)
                THEN BigAdd(q, <<1>>) ELSE q)
      divided(b, bits, dv) ==
        IF dv.r = <<>> THEN rounded(b, bits, BigAdd(Times(<<1>>, 2, bits), dv.q))
        ELSE round(b, bits, BigAdd(Times(<<1>>, 2, bits), dv.q), BigMul(dv.r, 2, 0))
      placed(b, bits) ==
        IF b.e >= 1024 THEN double("infinity", <<>>, 0, 0)
        ELSE IF bits < -1 \/ (bits = -1 /\ b.n = b.d) THEN double("zero", <<>>, 0, 0)
        ELSE IF bits = -1 THEN double("finite", <<1>>, -1074, -1074)
        ELSE divided(b, bits, DivBits(BigSub(b.n, b.d), b.d, bits))
      scaled(b) == placed(b, IF b.e >= -1022 THEN 52 ELSE b.e + 1074)
  IN scaled(Binade(Times(m, 10, e10), Times(<<1>>, 10, 0 - e10)))

\* the digits of r / s, a fraction below 1, up to the first that tells the
\* double from its neighbours: mp / s and mm / s are the half gaps to the
\* next double above and below, which belong to the double when incl; of two
\* last digits as near, the even one
RECURSIVE Generate(_, _, _, _, _)
Generate(r, s, mp, mm, incl) ==
  LET r10 == BigMul(r, 10, 0)
      d == CHOOSE x \in 0..9 :
             ~BigLess(r10, BigMul(s, x, 0)) /\ BigLess(r10, BigMul(s, x + 1, 0))
      rem == BigSub(r10, BigMul(s, d, 0))
      mp10 == BigMul(mp, 10, 0)
      mm10 == BigMul(mm, 10, 0)
      above == BigAdd(rem, mp10)
      low == IF incl THEN ~BigLess(mm10, rem) ELSE BigLess(rem, mm10)
      high == IF incl THEN ~BigLess(above, s) ELSE BigLess(s, above)
      twice == BigMul(rem, 2, 0)
  IN IF ~low /\ ~high THEN <<48 + d>> \o Generate(rem, s, mp10, mm10, incl)
     ELSE IF low /\ (~high \/ BigLess(twice, s) \/ (twice = s /\ d % 2 = 0))
     THEN <<48 + d>>
     ELSE <<49 + d>>

\* the power of ten k with 10^(k-1) <= (r + mp) / s < 10^k (<= and <
\* exchanged when incl), then the digits
RECURSIVE Fixup(_, _, _, _, _, _)
Fixup(r, s, mp, mm, incl, k) ==
  LET low(top10) == IF incl THEN BigLess(top10, s) ELSE ~BigLess(s, top10)
      place(top) ==
        IF (IF incl THEN ~BigLess(top, s) ELSE BigLess(s, top))
        THEN Fixup(r, BigMul(s, 10, 0), mp, mm, incl, k + 1)
        ELSE IF low(BigMul(top, 10, 0))
        THEN Fixup(BigMul(r, 10, 0), s, BigMul(mp, 10, 0), BigMul(mm, 10, 0), incl, k - 1)
        ELSE [digits |-> Generate(r, s, mp, mm, incl), k |-> k]
  IN place(BigAdd(r, mp))

\* the double x as Number.prototype.toString reads it: the shortest decimal
\* that x alone is nearest to.  x is r / s and the half gap below it mm / s,
\* the half gap above being twice that (sh = 2) at a power of two; k0
\* estimates the power of ten from the power of two
Shortest(x) ==
  LET sh == IF x.f = IEEE.twoTo52 /\ x.e > -1074 THEN 2 ELSE 1
      k0 == (x.log2 * 30103) \div 100000
      mm == Times(Times(<<1>>, 2, x.e), 10, 0 - k0)
      written(g) == JDecimal(FALSE, g.digits, g.k - Len(g.digits))
  IN IF x.kind = "infinity" THEN JInfinity(FALSE)
     ELSE IF x.kind = "zero" THEN JNum(0)
     ELSE written(Fixup(Times(Times(x.f, 2, (IF x.e > 0 THEN x.e ELSE 0) + sh), 10, 0 - k0),
                        Times(Times(<<1>>, 2, (IF x.e < 0 THEN 0 - x.e ELSE 0) + sh), 10, k0),
                        Times(mm, 2, sh - 1), mm, Head(x.f) % 2 = 0, k0))

\* the number that the numeral d * 10^e (d a digit string) is read as: the
\* nearest double.  A decimal of at most 15 digits within the normal range
\* names a double of its own, so it is the shortest decimal of that double
ToNumber(neg, d, e) ==
  LET v == JDecimal(neg, d, e)
      mag == Len(v.s) + v.e
  IN IF v.n = 0 THEN v
     ELSE IF mag > 309 THEN JInfinity(neg)
     ELSE IF mag < -323 THEN JNum(0)
     ELSE IF Len(v.s) <= 15 /\ mag >= -306 /\ mag <= 308 THEN v
     ELSE [Shortest(NearestDouble(BigOfDigits(v.s), v.e))
             EXCEPT !.n = IF neg THEN 0 - @ ELSE @]

(***************************************************************************)
(* JSON.parse.                                                             *)
(***************************************************************************)
\* space, tab, line feed, carriage return
IsWs(c) == c \in {32, 9, 10, 13}

RECURSIVE SkipWs(_)
SkipWs(s) == IF s # <<>> /\ IsWs(Head(s)) THEN SkipWs(Tail(s)) ELSE s

ParseFail == [ok |-> FALSE, val |-> Undefined, rest |-> <<>>]
ParseOk(v, rest) == [ok |-> TRUE, val |-> v, rest |-> rest]

\* the digits at the head of s, and the rest
ParseDigits(s) ==
  LET k == CHOOSE i \in 0..Len(s) :
             (i = Len(s) \/ ~IsDigit(s[i + 1])) /\ \A j \in 1..i : IsDigit(s[j])
  IN [d |-> Take(s, k), rest |-> Drop(s, k)]

\* a JSON number at the head of s:
\* -? (0 | [1-9][0-9]*) (. [0-9]+)? ([eE] [+-]? [0-9]+)?
\* read as Number does; an exponent of a million or more counts as a million
ParseNumber(s) ==
  LET size(big) == IF big = <<>> THEN 0 ELSE IF Len(big) = 1 THEN big[1] ELSE IEEE.limb
      numeral(neg, d, e, rest) == [ok |-> TRUE, neg |-> neg, d |-> d, e |-> e, rest |-> rest]
      exponent(neg, d, places, sign, exp) ==
        IF exp.d = <<>> THEN [ok |-> FALSE]
        ELSE numeral(neg, d, sign * size(BigOfDigits(exp.d)) - places, exp.rest)
      signed(neg, d, places, t) ==
        exponent(neg, d, places, IF StartsWith(t, <<Char.minus>>) THEN -1 ELSE 1,
                 ParseDigits(IF StartsWith(t, <<Char.minus>>) \/ StartsWith(t, <<Char.plus>>)
                             THEN Tail(t) ELSE t))
      fraction(neg, d, places, t) ==
        IF StartsWith(t, <<Char.e>>) \/ StartsWith(t, <<Char.capitalE>>)
        THEN signed(neg, d, places, Tail(t))
        ELSE numeral(neg, d, 0 - places, t)
      point(neg, int, hasFrac, frac) ==
        IF hasFrac /\ frac.d = <<>> THEN [ok |-> FALSE]
        ELSE fraction(neg, int.d \o frac.d, Len(frac.d), frac.rest)
      integer(neg, int) ==
        IF int.d = <<>> THEN [ok |-> FALSE]
        ELSE point(neg, int, StartsWith(int.rest, <<Char.dot>>),
                   IF StartsWith(int.rest, <<Char.dot>>) THEN ParseDigits(Tail(int.rest))
                   ELSE [d |-> <<>>, rest |-> int.rest])
      unsigned(neg, t) ==
        integer(neg, IF StartsWith(t, <<Char.zero>>)
                     THEN [d |-> <<Char.zero>>, rest |-> Tail(t)]
                     ELSE ParseDigits(t))
      p == unsigned(StartsWith(s, <<Char.minus>>),
                    IF StartsWith(s, <<Char.minus>>) THEN Tail(s) ELSE s)
  IN IF p.ok THEN ParseOk(ToNumber(p.neg, p.d, p.e), p.rest) ELSE ParseFail

\* the code unit that the four hexadecimal digits at the head of r name
HexCode(r) ==
  HexVal(r[1]) * 4096 + HexVal(r[2]) * 256 + HexVal(r[3]) * 16 + HexVal(r[4])

\* the rest of a JSON string after its opening quote, acc being what came; a
\* control character (below 0x20) may not stand unescaped
RECURSIVE ParseString(_, _)
ParseString(s, acc) ==
  IF s = <<>> THEN ParseFail
  ELSE LET c == Head(s) IN
    IF c = Char.quote THEN ParseOk(JStr(acc), Tail(s))
    ELSE IF c < 32 THEN ParseFail
    ELSE IF c # Char.backslash THEN ParseString(Tail(s), Append(acc, c))
    ELSE IF Len(s) < 2 THEN ParseFail
    ELSE LET d == Head(Tail(s))
             r == Drop(s, 2)
         IN IF d \in {Char.quote, Char.backslash, Char.slash} THEN ParseString(r, Append(acc, d))
            ELSE IF d = Char.b THEN ParseString(r, Append(acc, 8))
            ELSE IF d = Char.f THEN ParseString(r, Append(acc, 12))
            ELSE IF d = Char.n THEN ParseString(r, Append(acc, 10))
            ELSE IF d = Char.r THEN ParseString(r, Append(acc, 13))
            ELSE IF d = Char.t THEN ParseString(r, Append(acc, 9))
            ELSE IF d = Char.u /\ Len(r) >= 4 /\ \A i \in 1..4 : IsHex(r[i])
            THEN ParseString(Drop(r, 4), Append(acc, HexCode(r)))
            ELSE ParseFail

\* one JSON value at the head of s, leading whitespace skipped; the members of
\* an object or the elements of an array come one by one, after the ones in acc
RECURSIVE ParseValue(_)
RECURSIVE ParseMembers(_, _)
RECURSIVE ParseElements(_, _)
ParseMembers(s, acc) ==
  LET t == SkipWs(s) IN
  IF ~StartsWith(t, <<Char.quote>>) THEN ParseFail
  ELSE LET key == ParseString(Tail(t), <<>>)
           w == SkipWs(key.rest)
       IN IF ~key.ok \/ ~StartsWith(w, <<Char.colon>>) THEN ParseFail
          ELSE LET r == ParseValue(Tail(w))
                   x == SkipWs(r.rest)
                   m == PutMember(acc, key.val.s, r.val)
               IN IF ~r.ok THEN ParseFail
                  ELSE IF StartsWith(x, <<Char.rbrace>>) THEN ParseOk(Obj(m), Tail(x))
                  ELSE IF StartsWith(x, <<Char.comma>>) THEN ParseMembers(Tail(x), m)
                  ELSE ParseFail

ParseElements(s, acc) ==
  LET r == ParseValue(s)
      x == SkipWs(r.rest)
      vs == Append(acc, r.val)
  IN IF ~r.ok THEN ParseFail
     ELSE IF StartsWith(x, <<Char.rbracket>>) THEN ParseOk(ArrOf(vs), Tail(x))
     ELSE IF StartsWith(x, <<Char.comma>>) THEN ParseElements(Tail(x), vs)
     ELSE ParseFail

ParseValue(s) ==
  LET t == SkipWs(s) IN
  IF t = <<>> THEN ParseFail
  ELSE IF StartsWith(t, Word.null) THEN ParseOk(JNull, Drop(t, 4))
  ELSE IF StartsWith(t, Word.true) THEN ParseOk(JBool(TRUE), Drop(t, 4))
  ELSE IF StartsWith(t, Word.false) THEN ParseOk(JBool(FALSE), Drop(t, 5))
  ELSE IF Head(t) = Char.minus \/ IsDigit(Head(t)) THEN ParseNumber(t)
  ELSE IF Head(t) = Char.quote THEN ParseString(Tail(t), <<>>)
  ELSE IF Head(t) = Char.lbrace THEN
    (IF StartsWith(SkipWs(Tail(t)), <<Char.rbrace>>)
     THEN ParseOk(Obj(<<>>), Tail(SkipWs(Tail(t))))
     ELSE ParseMembers(Tail(t), <<>>))
  ELSE IF Head(t) = Char.lbracket THEN
    (IF StartsWith(SkipWs(Tail(t)), <<Char.rbracket>>)
     THEN ParseOk(Arr(<<>>), Tail(SkipWs(Tail(t))))
     ELSE ParseElements(Tail(t), <<>>))
  ELSE ParseFail

\* String(v) for the values JSON.parse may be handed
StringOf(v) ==
  IF v.t = "str" THEN v.s
  ELSE IF v.t = "undefined" THEN Word.undefined
  ELSE IF v.t = "null" THEN Word.null
  ELSE IF v.t = "bool" THEN (IF v.n = 1 THEN Word.true ELSE Word.false)
  ELSE Word.object

\* JSON.parse(text): ok is FALSE where JSON.parse throws a SyntaxError
JSONParse(text) ==
  LET r == ParseValue(text) IN
  IF r.ok /\ SkipWs(r.rest) = <<>> THEN ParseOk(r.val, <<>>) ELSE ParseFail

(***************************************************************************)
(* JSON.stringify.                                                         *)
(***************************************************************************)
\* Number.prototype.toString: the digits in full when the decimal point
\* falls within 21 places after the first digit or 6 before it, and the
\* exponent form otherwise
NumText(v) ==
  LET k == Len(v.s)
      pt == k + v.e
      sign == IF v.n < 0 THEN <<Char.minus>> ELSE <<>>
  IN IF v.n = 0 THEN <<Char.zero>>
     ELSE IF k <= pt /\ pt <= 21 THEN sign \o v.s \o Zeros(pt - k)
     ELSE IF 0 < pt /\ pt <= 21 THEN sign \o Take(v.s, pt) \o <<Char.dot>> \o Drop(v.s, pt)
     ELSE IF -6 < pt /\ pt <= 0 THEN sign \o <<Char.zero, Char.dot>> \o Zeros(0 - pt) \o v.s
     ELSE sign \o Take(v.s, 1) \o (IF k > 1 THEN <<Char.dot>> \o Drop(v.s, 1) ELSE <<>>)
          \o <<Char.e>>
          \o (IF pt > 0 THEN <<Char.plus>> \o NatText(pt - 1)
              ELSE <<Char.minus>> \o NatText(1 - pt))

\* the escape \uXXXX of a code unit, in lower-case digits
UnicodeEscape(c) ==
  LET hex(n) == IF n < 10 THEN 48 + n ELSE 87 + n
  IN <<Char.backslash, Char.u, hex(c \div 4096), hex((c \div 256) % 16),
       hex((c \div 16) % 16), hex(c % 16)>>

IsHighSurrogate(c) == c >= 55296 /\ c <= 56319
IsLowSurrogate(c) == c >= 56320 /\ c <= 57343

\* a code unit within a JSON string: the quote, the backslash and the control
\* characters are escaped, and so is a surrogate that is not half of a pair
EscapeChar(c, paired) ==
  IF c = Char.quote THEN <<Char.backslash, Char.quote>> ELSE IF c = Char.backslash THEN <<Char.backslash, Char.backslash>>
  ELSE IF c = 8 THEN <<Char.backslash, Char.b>> ELSE IF c = 12 THEN <<Char.backslash, Char.f>>
  ELSE IF c = 10 THEN <<Char.backslash, Char.n>> ELSE IF c = 13 THEN <<Char.backslash, Char.r>>
  ELSE IF c = 9 THEN <<Char.backslash, Char.t>>
  ELSE IF c < 32 THEN UnicodeEscape(c)
  ELSE IF (IsHighSurrogate(c) \/ IsLowSurrogate(c)) /\ ~paired THEN UnicodeEscape(c)
  ELSE <<c>>

RECURSIVE Escape(_)
Escape(s) ==
  IF s = <<>> THEN <<>>
  ELSE IF Len(s) >= 2 /\ IsHighSurrogate(s[1]) /\ IsLowSurrogate(s[2])
  THEN <<s[1], s[2]>> \o Escape(Drop(s, 2))
  ELSE EscapeChar(Head(s), FALSE) \o Escape(Tail(s))

\* the JSON text of a value other than undefined; a member whose value is
\* undefined is left out of an object and written null in an array, and an
\* infinite number is written null
RECURSIVE JSONText(_)
RECURSIVE StringifyMembers(_, _, _)
StringifyMembers(m, first, isArr) ==
  IF m = <<>> THEN <<>>
  ELSE IF Head(m).v = Undefined /\ ~isArr THEN StringifyMembers(Tail(m), first, isArr)
  ELSE (IF first THEN <<>> ELSE <<Char.comma>>)
       \o (IF isArr THEN <<>> ELSE <<Char.quote>> \o Escape(Head(m).k) \o <<Char.quote, Char.colon>>)
       \o JSONText(Head(m).v)
       \o StringifyMembers(Tail(m), FALSE, isArr)

JSONText(v) ==
  IF v.t = "num" THEN NumText(v)
  ELSE IF v.t = "str" THEN <<Char.quote>> \o Escape(v.s) \o <<Char.quote>>
  ELSE IF v.t = "bool" THEN (IF v.n = 1 THEN Word.true ELSE Word.false)
  ELSE IF v.t = "obj" THEN <<Char.lbrace>> \o StringifyMembers(v.m, TRUE, FALSE) \o <<Char.rbrace>>
  ELSE IF v.t = "arr" THEN <<Char.lbracket>> \o StringifyMembers(v.m, TRUE, TRUE) \o <<Char.rbracket>>
  ELSE Word.null

\* JSON.stringify(v): a string, or the value undefined for undefined
Stringify(v) == IF v = Undefined THEN Undefined ELSE JStr(JSONText(v))

\* a value as res.json sends it and the client reads it
RECURSIVE OnWire(_)
OnWire(v) ==
  IF v.t = "obj"
  THEN Obj([i \in DOMAIN SelectSeq(v.m, LAMBDA x : x.v # Undefined) |->
              LET x == SelectSeq(v.m, LAMBDA y : y.v # Undefined)[i]
              IN Member(x.k, OnWire(x.v))])
  ELSE IF v.t = "arr"
  THEN Arr([i \in DOMAIN v.m |->
              Member(v.m[i].k, IF v.m[i].v = Undefined THEN JNull ELSE OnWire(v.m[i].v))])
  ELSE IF v.t = "infinity" THEN JNull
  ELSE v

(***************************************************************************)
(* The property names and texts that the handlers read and write.          *)
(***************************************************************************)
\* Key.x is the property name x (Key.id is _id)
Key ==
  [result |-> Str("result"),
   success |-> Str("success"),
   error |-> Str("error"),
   text |-> Str("text"),
   rawText |-> Str("rawText"),
   analysis |-> Str("analysis"),
   id |-> Str("_id"),
   imageName |-> Str("imageName"),
   notes |-> Str("notes"),
   referToDerm |-> Str("referToDerm"),
   prompt |-> Str("prompt"),
   model |-> Str("model"),
   contents |-> Str("contents"),
   inlineData |-> Str("inlineData"),
   mimeType |-> Str("mimeType"),
   data |-> Str("data"),
   diagnosis |-> Str("diagnosis"),
   refer_to_dermatologist |-> Str("refer_to_dermatologist"),
   k |-> Str("k")]
ModelUnavailable == Str("model unavailable")

(***************************************************************************)
(* Model texts: concatenations of a few tokens, one of them the string     *)
(* literal "k" with its quotes; the letter h starts no JSON value.         *)
(***************************************************************************)
Tokens == {Str("{"), Str("}"), Str("\"k\""), Str(":"), Str("1"), Str(" "), Str("h")}

RECURSIVE TextsOfLen(_)
TextsOfLen(n) ==
  IF n = 0 THEN {<<>>}
  ELSE {c \o t : c \in Tokens, t \in TextsOfLen(n - 1)}

Texts(max) == UNION {TextsOfLen(n) : n \in 0..max}

(***************************************************************************)
(* Buffer.toString("base64") on a sequence of bytes.                       *)
(***************************************************************************)
B64 == Str("ABCDEFGHIJKLMNOPQRSTUVWXYZabcdefghijklmnopqrstuvwxyz0123456789+/")

\* the text ends in one = (code 61) for each byte short of three
RECURSIVE Base64(_)
Base64(b) ==
  IF b = <<>> THEN <<>>
  ELSE IF Len(b) = 1 THEN
    <<B64[(b[1] \div 4) + 1], B64[((b[1] % 4) * 16) + 1]>> \o <<61, 61>>
  ELSE IF Len(b) = 2 THEN
    <<B64[(b[1] \div 4) + 1], B64[((b[1] % 4) * 16 + (b[2] \div 16)) + 1],
      B64[((b[2] % 16) * 4) + 1]>> \o <<61>>
  ELSE
    <<B64[(b[1] \div 4) + 1], B64[((b[1] % 4) * 16 + (b[2] \div 16)) + 1],
      B64[((b[2] % 16) * 4 + (b[3] \div 64)) + 1], B64[(b[3] % 64) + 1]>>
      \o Base64(SubSeq(b, 4, Len(b)))

(***************************************************************************)
(* ModelClient (ai.models.generateContent): a black box that resolves with *)
(* a response or rejects with an error.  A response exposes a text, or has *)
(* none; rest is what JSON.stringify sees of a response without text (the  *)
(* response itself when it is null or undefined).                          *)
(***************************************************************************)
TextResponse(text) == [hasText |-> TRUE, text |-> text, rest |-> Obj(<<>>)]
TextlessResponse(rest) == [hasText |-> FALSE, text |-> <<>>, rest |-> rest]
\* the value undefined where a response is expected
NoResponse == TextlessResponse(Undefined)

\* what a response without text may be
Rests ==
  { Undefined, JNull, Obj(<<>>), Obj(<<Member(Key.k, JNum(1))>>),
    Obj(<<Member(Key.k, JNum(2))>>), Obj(<<Member(Key.k, Obj(<<>>))>>),
    Obj(<<Member(Key.k, JStr(Str("a\"b")))>>),
    Obj(<<Member(Str("candidates"), Arr(<<>>)), Member(Str("n"), JNum(0))>>) }

\* two model texts: one that parses as JSON and one that does not
Sample == [kOne |-> Str("{\"k\":1}"), h |-> Str("h")]

\* model texts with numerals that no double is equal to, each with the value
\* the client reads: a numeral is read as the nearest double, and one beyond
\* the doubles as Infinity, which JSON cannot carry and res.json writes null
NumberSamples ==
  { [text |-> Str("1e400"), result |-> JNull],
    [text |-> Str("1e-400"), result |-> JNum(0)],
    [text |-> Str("4e-324"), result |-> JDecimal(FALSE, Str("5"), -324)],
    [text |-> Str("9007199254740993"),
     result |-> JDecimal(FALSE, Str("9007199254740992"), 0)],
    [text |-> Str("[-1.50E+2,2e308]"), result |-> ArrOf(<<JNum(0 - 150), JNull>>)],
    [text |-> Str("{\"k\":0.1000000000000000055}"),
     result |-> Obj(<<Member(Key.k, JDecimal(FALSE, Str("1"), -1))>>)] }

\* the responses of the endpoint runs
SampleResponses ==
  { TextResponse(Sample.kOne), TextResponse(Sample.h),
    TextlessResponse(Obj(<<Member(Key.k, JNum(1))>>)) }

\* every response with a text of at most max tokens or with one of the
\* numeral texts, and the textless ones
Responses(max) ==
  {TextResponse(t) : t \in Texts(max) \cup {x.text : x \in NumberSamples}}
    \cup {TextlessResponse(r) : r \in Rests}

\* the errors a failed attempt may carry
Errors == {Str("overloaded"), Str("fetch failed")}

(***************************************************************************)
(* State.  One entry per request slot: an HTTP request being served, or a  *)
(* direct call of generateWithRetry.  The handlers are cut at their awaits.*)
(***************************************************************************)
VARIABLES
  pc,            \* "idle"; "awaiting" (generateContent pending); "backoff";
                 \* "resuming" (the awaited call has settled, the handler has
                 \* not run on); "done"
  kind,          \* "none", "assistant", "analyze", "direct",
                 \* "create", "get", "update", "delete"
  request,       \* what was received: [body, file, id]
  params,        \* the argument handed to generateContent
  retries,       \* generateWithRetry's parameter
  initialDelay,  \* generateWithRetry's parameter, in ms
  attempt,       \* generateWithRetry's local counter
  calls,         \* generateContent invocations made for the request
  delays,        \* the delays computed, in order
  waits,         \* the time each timer waited, in ms, in order
  outcome,       \* how generateWithRetry ended: returned resp, or threw err
  response,      \* the HTTP response sent: [status, body]
  store,         \* the collection: the set of its documents
  nextId,        \* documents created so far
  awaited,       \* what the handler's database operation came back with
  seen,          \* what the database operation met: whether the :id named a
                 \* document, and the create request that document is from
  origin         \* per id: the create request it came from, until updated or deleted

retryVars == <<params, retries, initialDelay, attempt, calls, delays, waits, outcome>>
storeVars == <<store, nextId, awaited, seen, origin>>
vars == <<pc, kind, request, response, retryVars, storeVars>>

Procs == 1..NReq

DefaultRetries == 3
DefaultInitialDelay == 1000
\* the longest wait a Node.js timer takes; setTimeout waits 1 ms for any delay outside 1..TIMEOUT_MAX
TIMEOUT_MAX == 2147483647

RECURSIVE Pow2(_)
Pow2(k) == IF k <= 0 THEN 1 ELSE 2 * Pow2(k - 1)

\* line 54: delay = initialDelay * Math.pow(2, att - 1).  The delay is the
\* product base * factor, kept as its two factors: it may exceed TIMEOUT_MAX.
BackoffDelay(d, att) == [base |-> d, factor |-> Pow2(att - 1)]

\* line 55: setTimeout(r, delay) waits delay ms when 1 <= delay <= TIMEOUT_MAX
\* and 1 ms otherwise (the product is compared by division)
TimerWait(delay) ==
  IF delay.base >= 1 /\ delay.base <= TIMEOUT_MAX \div delay.factor
  THEN delay.base * delay.factor
  ELSE 1

NoFile == [present |-> FALSE, mimetype |-> <<>>, buffer |-> <<>>]
File(mimetype, buffer) == [present |-> TRUE, mimetype |-> mimetype, buffer |-> buffer]
Request(body, file, id) == [body |-> body, file |-> file, id |-> id]
NoRequest == Request(Undefined, NoFile, <<>>)
NoOutcome == [kind |-> "none", resp |-> NoResponse, err |-> <<>>]
Returned(resp) == [kind |-> "returned", resp |-> resp, err |-> <<>>]
Threw(err) == [kind |-> "threw", resp |-> NoResponse, err |-> err]
NoHttp == [status |-> 0, body |-> Undefined]
Http(status, body) == [status |-> status, body |-> body]
\* res.status(status).json(body)
ResJson(status, body) == Http(status, OnWire(body))

\* a variant of Falsy: only a missing prompt is refused, an empty one is not
FalsyOnlyNullish(v) == IsNullish(v)

\* !v is true: v is undefined, null, "", 0 or false
Falsy(v) ==
  \/ IsNullish(v)
  \/ v.t = "str" /\ v.s = <<>>
  \/ v.t = "num" /\ v.n = 0
  \/ v.t = "bool" /\ v.n = 0

ModelId == Str("gemini-2.5-flash")

SystemPrompt ==
  Str("You are a helpful, accurate, and cautious dermatology assistant. Provide clear, non-prescriptive information. If the user requests medical advice, include a disclaimer to consult a dermatologist.")

UserPrompt ==
  Str("\nYou are an expert dermatology assistant. Analyze the provided skin photo and return ONLY a single JSON object (no extra text).\nJSON keys:\n- diagnosis: short label (e.g. \"acne\", \"eczema\", \"hyperpigmentation\", \"normal\", \"other\")\n- differential: array of possible alternate diagnoses (strings)\n- confidence: number 0-100\n- severity: \"low\"|\"medium\"|\"high\"\n- treatment_recommendations: array of short recommendation strings (non-prescriptive; include topical suggestions, lifestyle tips)\n- refer_to_dermatologist: boolean\n- notes: any short caveats (e.g. \"image poor quality\")\n- disclaimer: short text: \"Not a medical diagnosis; consult a dermatologist.\"\n\nProvide numeric or short textual values only. No markdown, no extra commentary, strictly JSON.\n")

\* lines 201-207
AssistantParams(prompt) ==
  Obj(<<Member(Key.model, JStr(ModelId)),
        Member(Key.contents, ArrOf(<<Obj(<<Member(Key.text, JStr(SystemPrompt))>>),
                                   Obj(<<Member(Key.text, prompt)>>)>>))>>)

\* line 231
DefaultMimeType == Str("image/jpeg")

\* lines 231-232, 251-257
AnalyzeParams(file) ==
  LET mimeType == IF file.mimetype = <<>> THEN DefaultMimeType ELSE file.mimetype
      base64 == Base64(file.buffer)
  IN Obj(<<Member(Key.model, JStr(ModelId)),
           Member(Key.contents,
             ArrOf(<<Obj(<<Member(Key.inlineData,
                        Obj(<<Member(Key.mimeType, JStr(mimeType)),
                              Member(Key.data, JStr(base64))>>))>>),
                     Obj(<<Member(Key.text, JStr(UserPrompt))>>)>>))>>)

\* a variant of RawTextOf: a response without text is not serialised
RawTextOnly(resp) == JStr(resp.text)

\* response?.text ?? JSON.stringify(response) (lines 208, 258): a string, or
\* undefined when the response is undefined
RawTextOf(resp) == IF resp.hasText THEN JStr(resp.text) ELSE Stringify(resp.rest)

\* lines 208-209
AssistantSuccess(resp) ==
  ResJson(200, Obj(<<Member(Key.success, JBool(TRUE)), Member(Key.text, RawTextOf(resp))>>))

\* lines 213-214
AssistantMock ==
  Str("I'm temporarily unable to reach the AI model. Here are some general skin care tips: keep skin clean, avoid picking lesions, use gentle sunscreen, and consult a dermatologist for persistent issues.")

AssistantUnavailable ==
  ResJson(503, Obj(<<Member(Key.success, JBool(FALSE)),
                     Member(Key.error, JStr(ModelUnavailable)),
                     Member(Key.text, JStr(AssistantMock))>>))

\* lines 258-265: the parsed value, or { rawText } when JSON.parse throws
ShapeResult(resp) ==
  LET rawText == RawTextOf(resp)
      parsed == JSONParse(StringOf(rawText))
  IN IF parsed.ok THEN parsed.val
     ELSE Obj(<<Member(Key.rawText, rawText)>>)

\* line 267
AnalyzeSuccess(resp) ==
  ResJson(200, Obj(<<Member(Key.success, JBool(TRUE)), Member(Key.result, ShapeResult(resp))>>))

\* lines 271-280
Fallback ==
  Obj(<<Member(Key.diagnosis, JStr(Str("other"))),
        Member(Str("differential"), ArrOf(<<JStr(Str("acne")), JStr(Str("contact_dermatitis"))>>)),
        Member(Str("confidence"), JNum(45)),
        Member(Str("severity"), JStr(Str("low"))),
        Member(Str("treatment_recommendations"),
               ArrOf(<<JStr(Str("Keep area clean")), JStr(Str("Use gentle cleanser")),
                       JStr(Str("Apply non-comedogenic moisturizer")), JStr(Str("Avoid irritants"))>>)),
        Member(Key.refer_to_dermatologist, JBool(FALSE)),
        Member(Key.notes, JStr(Str("Model unavailable; returning conservative suggestions."))),
        Member(Str("disclaimer"), JStr(Str("Not a medical diagnosis; consult a dermatologist.")))>>)

\* line 281
AnalyzeUnavailable ==
  ResJson(503, Obj(<<Member(Key.success, JBool(FALSE)),
                     Member(Key.error, JStr(ModelUnavailable)),
                     Member(Key.result, Fallback)>>))

\* line 196
MissingPrompt ==
  ResJson(400, Obj(<<Member(Key.success, JBool(FALSE)), Member(Key.error, JStr(Str("Missing prompt")))>>))
\* line 229
NoImageUploaded == ResJson(400, Obj(<<Member(Key.error, JStr(Str("No image uploaded")))>>))

(***************************************************************************)
(* generateWithRetry (lines 35-58), cut at its awaits, and the two         *)
(* handlers that call it.                                                  *)
(***************************************************************************)
\* a variant of ResponseFor: the fallback's notes carry the error's message
ResponseForLeaky(k, out) ==
  IF k = "assistant"
  THEN (IF out.kind = "returned" THEN AssistantSuccess(out.resp) ELSE AssistantUnavailable)
  ELSE IF k = "analyze"
  THEN (IF out.kind = "returned" THEN AnalyzeSuccess(out.resp)
        ELSE ResJson(503, Obj(<<Member(Key.success, JBool(FALSE)),
                                Member(Key.error, JStr(ModelUnavailable)),
                                Member(Key.result, SetMember(Fallback, Key.notes, JStr(out.err)))>>)))
  ELSE NoHttp

\* what the caller of generateWithRetry sends once the call has ended:
\* the try/catch around the call in each handler (lines 206-215, 256-282)
ResponseFor(k, out) ==
  IF k = "assistant"
  THEN (IF out.kind = "returned" THEN AssistantSuccess(out.resp) ELSE AssistantUnavailable)
  ELSE IF k = "analyze"
  THEN (IF out.kind = "returned" THEN AnalyzeSuccess(out.resp) ELSE AnalyzeUnavailable)
  ELSE NoHttp

\* a variant of AttemptsAfterFailure: one attempt counter shared by every request
AttemptsAfterFailureShared(att, p) == [q \in DOMAIN att |-> att[q] + 1]

\* line 48: attempt++ on the call's own counter
AttemptsAfterFailure(att, p) == [att EXCEPT ![p] = @ + 1]

\* a variant of IsLastAttempt: the last attempt is taken for one more to come
IsLastAttemptLate(att, n) == att > n

\* a variant of IsLastAttempt: the attempt before the last already gives up
IsLastAttemptEarly(att, n) == att >= n - 1

\* line 52: the last attempt rethrows
IsLastAttempt(att, n) == att >= n

\* line 37: the loop test
LoopContinues(att, n) == att < n

\* a slot that serves no request
Free(p) == pc[p] \in {"idle", "done"}

\* where a request stands once generateWithRetry has settled: its handler is
\* still to run on from its await (lines 207, 257); a direct call has no handler
AfterCall(k) == IF k = "direct" THEN "done" ELSE "resuming"

\* line 39: ai.models.generateContent(params) is invoked and awaited, after
\* made invocations
Invoke(p, made) ==
  /\ calls' = [calls EXCEPT ![p] = made + 1]
  /\ pc' = [pc EXCEPT ![p] = "awaiting"]

\* lines 35-39, 58: the call is entered with attempt = 0; it makes its first
\* invocation, or resolves with undefined at once when the loop is not entered
StartCall(p, k, req, prm, n, d) ==
  /\ Free(p)
  /\ kind' = [kind EXCEPT ![p] = k]
  /\ request' = [request EXCEPT ![p] = req]
  /\ params' = [params EXCEPT ![p] = prm]
  /\ retries' = [retries EXCEPT ![p] = n]
  /\ initialDelay' = [initialDelay EXCEPT ![p] = d]
  /\ attempt' = [attempt EXCEPT ![p] = 0]
  /\ delays' = [delays EXCEPT ![p] = <<>>]
  /\ waits' = [waits EXCEPT ![p] = <<>>]
  /\ response' = [response EXCEPT ![p] = NoHttp]
  /\ IF LoopContinues(0, n)
     THEN /\ Invoke(p, 0)
          /\ outcome' = [outcome EXCEPT ![p] = NoOutcome]
     ELSE /\ calls' = [calls EXCEPT ![p] = 0]
          /\ pc' = [pc EXCEPT ![p] = AfterCall(k)]
          /\ outcome' = [outcome EXCEPT ![p] = Returned(NoResponse)]

\* a request ends before any call of generateWithRetry
Reject(p, k, req, http) ==
  /\ Free(p)
  /\ pc' = [pc EXCEPT ![p] = "done"]
  /\ kind' = [kind EXCEPT ![p] = k]
  /\ request' = [request EXCEPT ![p] = req]
  /\ response' = [response EXCEPT ![p] = http]
  /\ params' = [params EXCEPT ![p] = Undefined]
  /\ retries' = [retries EXCEPT ![p] = 0]
  /\ initialDelay' = [initialDelay EXCEPT ![p] = 0]
  /\ attempt' = [attempt EXCEPT ![p] = 0]
  /\ calls' = [calls EXCEPT ![p] = 0]
  /\ delays' = [delays EXCEPT ![p] = <<>>]
  /\ waits' = [waits EXCEPT ![p] = <<>>]
  /\ outcome' = [outcome EXCEPT ![p] = NoOutcome]

\* the bodies of the assistant requests: none, and objects with no prompt, a
\* falsy prompt or a question
AssistantBodies ==
  {Undefined, Obj(<<>>), Obj(<<Member(Key.prompt, JStr(<<>>))>>),
   Obj(<<Member(Key.prompt, JNum(0))>>), Obj(<<Member(Key.prompt, JBool(FALSE))>>),
   Obj(<<Member(Key.prompt, JStr(Str("is this acne?")))>>)}

\* an uploaded image
Png == File(Str("image/png"), <<137, 80, 78>>)

Files == {NoFile, Png, File(<<>>, <<255, 216>>)}

\* POST /api/assistant (lines 193-207)
ReceiveAssistant(p, body) ==
  LET prompt == Get(IF Falsy(body) THEN Obj(<<>>) ELSE body, Key.prompt)
      req == Request(body, NoFile, <<>>)
  IN /\ IF Falsy(prompt)
        THEN Reject(p, "assistant", req, MissingPrompt)
        ELSE StartCall(p, "assistant", req, AssistantParams(prompt),
                       DefaultRetries, DefaultInitialDelay)
     /\ UNCHANGED storeVars

\* POST /api/analyze-image (lines 227-257)
ReceiveAnalyze(p, file) ==
  LET req == Request(Undefined, file, <<>>)
  IN /\ IF ~file.present
        THEN Reject(p, "analyze", req, NoImageUploaded)
        ELSE StartCall(p, "analyze", req, AnalyzeParams(file),
                       DefaultRetries, DefaultInitialDelay)
     /\ UNCHANGED storeVars

\* a direct call generateWithRetry(params, n, d)
Call(p, n, d) ==
  /\ StartCall(p, "direct", NoRequest, Obj(<<Member(Key.model, JStr(ModelId))>>), n, d)
  /\ UNCHANGED storeVars

\* lines 39-46: the invocation resolves and generateWithRetry returns resp
ModelResolves(p, resp) ==
  /\ pc[p] = "awaiting"
  /\ pc' = [pc EXCEPT ![p] = AfterCall(kind[p])]
  /\ outcome' = [outcome EXCEPT ![p] = Returned(resp)]
  /\ UNCHANGED <<kind, request, response, params, retries, initialDelay, attempt,
                 calls, delays, waits, storeVars>>

\* lines 47-55: the invocation rejects; the last attempt rethrows, any other
\* starts the backoff timer
ModelRejects(p, err) ==
  /\ pc[p] = "awaiting"
  /\ attempt' = AttemptsAfterFailure(attempt, p)
  /\ IF IsLastAttempt(attempt'[p], retries[p])
     THEN /\ pc' = [pc EXCEPT ![p] = AfterCall(kind[p])]
          /\ outcome' = [outcome EXCEPT ![p] = Threw(err)]
          /\ UNCHANGED <<delays, waits>>
     ELSE /\ pc' = [pc EXCEPT ![p] = "backoff"]
          /\ delays' = [delays EXCEPT
                          ![p] = Append(@, BackoffDelay(initialDelay[p], attempt'[p]))]
          /\ waits' = [waits EXCEPT
                         ![p] = Append(@, TimerWait(BackoffDelay(initialDelay[p], attempt'[p])))]
          /\ UNCHANGED outcome
  /\ UNCHANGED <<kind, request, response, params, retries, initialDelay, calls, storeVars>>

\* lines 55, 37-39: the timer fires, the loop goes round and invokes again
TimerFires(p) ==
  /\ pc[p] = "backoff"
  /\ LoopContinues(attempt[p], retries[p])
  /\ Invoke(p, calls[p])
  /\ UNCHANGED <<kind, request, response, params, retries, initialDelay, attempt,
                 delays, waits, outcome, storeVars>>

\* the handler of a model endpoint is suspended at its await of
\* generateWithRetry, which has settled
CanRespond(p) == pc[p] = "resuming" /\ kind[p] \in {"assistant", "analyze"}

\* lines 208-214, 258-281: the handler runs on from its await of
\* generateWithRetry and sends its response
Respond(p) ==
  /\ CanRespond(p)
  /\ pc' = [pc EXCEPT ![p] = "done"]
  /\ response' = [response EXCEPT ![p] = ResponseFor(kind[p], outcome[p])]
  /\ UNCHANGED <<kind, request, retryVars, storeVars>>

(***************************************************************************)
(* The Analysis model (models/Analysis.js) and the CRUD handlers, cut at   *)
(* the await of their database operation.  The store-managed timestamps    *)
(* and version key are left out of a document.                             *)
(***************************************************************************)
\* the _id values the store hands out, in order; each is a well-formed ObjectId
ObjectIds == <<Str("64b7f0000000000000000001"), Str("64b7f0000000000000000002"),
               Str("64b7f0000000000000000003"), Str("64b7f0000000000000000004"),
               Str("64b7f0000000000000000005"), Str("64b7f0000000000000000006")>>
\* an :id that is no ObjectId
MalformedId == Str("abc")

\* the :id values of the requests: every id the store may hand out (it names
\* no document before it is handed out and after its document is deleted), and
\* a malformed one
RequestIds == {ObjectIds[i] : i \in 1..MaxRecords} \cup {MalformedId}

\* whether the string casts to an ObjectId: 24 hexadecimal digits
IsObjectId(id) == Len(id) = 24 /\ \A i \in DOMAIN id : IsHex(id[i])

\* the schema option minimize (on by default): saving and serialising a
\* document drop every empty object, members first
RECURSIVE Minimize(_)
RECURSIVE MinimizeMembers(_)
MinimizeMembers(m) ==
  IF m = <<>> THEN <<>>
  ELSE LET v == Minimize(Head(m).v)
       IN (IF v = Undefined THEN <<>> ELSE <<Member(Head(m).k, v)>>)
          \o MinimizeMembers(Tail(m))

Minimize(v) ==
  IF v.t # "obj" THEN v
  ELSE LET m == MinimizeMembers(v.m)
       IN IF m = <<>> THEN Undefined ELSE Obj(m)

\* referToDerm: { type: Boolean, default: false } (Analysis.js line 13)
ReferToDermDefault(v) == IF v = Undefined THEN JBool(FALSE) ELSE v

\* result: { type: Mixed, required: true } (Analysis.js line 9): the required
\* validator of a Mixed path accepts every value but null and undefined
ResultRequiredOk(v) == ~IsNullish(v)

\* new Analysis({ imageName, result, notes, referToDerm }) with a fresh _id (line 136)
NewAnalysis(id, imageName, result, notes, referToDerm) ==
  SetMember(SetMember(SetMember(SetMember(
    Obj(<<Member(Key.id, JStr(id))>>),
    Key.imageName, imageName), Key.result, result), Key.notes, notes),
    Key.referToDerm, ReferToDermDefault(referToDerm))

\* the document as saved and as serialised in a response
Saved(doc) == Minimize(doc)

\* findByIdAndUpdate(id, body, { new: true }) (line 171): the schema's paths
\* that the body names are set, no validator runs
ApplyUpdate(doc, body) ==
  SetMember(SetMember(SetMember(SetMember(doc,
    Key.imageName, Get(body, Key.imageName)),
    Key.result, Get(body, Key.result)),
    Key.notes, Get(body, Key.notes)),
    Key.referToDerm, Get(body, Key.referToDerm))

Found(id) == {d \in store : Get(d, Key.id) = JStr(id)}

\* what an awaited database operation comes back with: a document, null, or
\* a rejection with an error message
DbNone == [kind |-> "none", doc |-> Undefined, msg |-> <<>>]
DbDoc(doc) == [kind |-> "doc", doc |-> doc, msg |-> <<>>]
DbNull == [kind |-> "null", doc |-> Undefined, msg |-> <<>>]
DbError(msg) == [kind |-> "error", doc |-> Undefined, msg |-> msg]

\* the message of the CastError of an :id that is no ObjectId
CastError ==
  [head |-> Str("Cast to ObjectId failed for value \""),
   tail |-> Str("\" (type string) at path \"_id\" for model \"Analysis\"")]
CastErrorMessage(id) == CastError.head \o id \o CastError.tail
\* the message of the ValidationError of a document without result; the
\* path's name stands between grave accents (code 96)
ValidationErrorMessage ==
  Str("Analysis validation failed: result: Path ") \o <<96>> \o Str("result")
    \o <<96>> \o Str(" is required.")
\* the collection operation behind each handler's call
Operation ==
  [k \in {"create", "get", "update", "delete"} |->
     IF k = "create" THEN Str("insertOne") ELSE IF k = "get" THEN Str("findOne")
     ELSE IF k = "update" THEN Str("findOneAndUpdate") ELSE Str("findOneAndDelete")]
\* the message of an operation that the database, not connected (line 28),
\* never took; the operation's name stands between grave accents
NotConnectedMessages ==
  [k \in DOMAIN Operation |->
     Str("Operation ") \o <<96>> \o Str("analyses.") \o Operation[k] \o Str("()") \o <<96>>
       \o Str(" buffering timed out after 10000ms")]
NotConnectedMessage(k) == NotConnectedMessages[k]
\* the message of the TypeError of destructuring a body that is undefined or
\* null (line 135)
DestructureMessages ==
  [body \in {Undefined, JNull} |->
     Str("Cannot destructure property 'imageName' of 'req.body' as it is ")
       \o StringOf(body) \o Str(".")]
DestructureMessage(body) == DestructureMessages[body]

ErrorBody(msg) == Obj(<<Member(Key.success, JBool(FALSE)), Member(Key.error, JStr(msg))>>)
NotFound == ResJson(404, ErrorBody(Str("Not found")))
AnalysisBody(doc) == Obj(<<Member(Key.success, JBool(TRUE)), Member(Key.analysis, doc)>>)

\* what a database operation met
Seen(existed, from) == [existed |-> existed, from |-> from]
\* the create request the document of this id is from, when it is as created
OriginOf(id) ==
  IF \E o \in origin : o.id = id THEN (CHOOSE o \in origin : o.id = id).body ELSE Undefined

\* the result values of the create requests: none, null, and structured values
CreateResults == {Undefined, Obj(<<>>), Obj(<<Member(Key.k, JNum(1))>>)}

\* the bodies of the create requests; the first is that of a request without
\* a body
CreateBodies ==
  { Undefined }
  \cup { SetMember(Obj(<<>>), Key.result, r) : r \in CreateResults }
  \cup { Obj(<<Member(Key.imageName, JStr(Str("a.png"))),
               Member(Key.result, Obj(<<Member(Key.rawText, JStr(Sample.h))>>)),
               Member(Key.referToDerm, JBool(TRUE))>>) }

UpdateBodies ==
  { Obj(<<Member(Key.result, JNull)>>),
    Obj(<<Member(Key.notes, JStr(Str("seen"))), Member(Key.referToDerm, JBool(TRUE))>>) }

\* a CRUD handler starts: up to the await of its database operation, which
\* came back with res
Operate(p, k, req, res, sn) ==
  /\ Free(p)
  /\ pc' = [pc EXCEPT ![p] = "resuming"]
  /\ kind' = [kind EXCEPT ![p] = k]
  /\ request' = [request EXCEPT ![p] = req]
  /\ response' = [response EXCEPT ![p] = NoHttp]
  /\ awaited' = [awaited EXCEPT ![p] = res]
  /\ seen' = [seen EXCEPT ![p] = sn]
  /\ UNCHANGED retryVars

\* a CRUD handler throws before its await: the catch sends 500 with the
\* error's message at once, and no database operation is made
ThrowBeforeAwait(p, k, req, msg) ==
  /\ Free(p)
  /\ pc' = [pc EXCEPT ![p] = "done"]
  /\ kind' = [kind EXCEPT ![p] = k]
  /\ request' = [request EXCEPT ![p] = req]
  /\ response' = [response EXCEPT ![p] = ResJson(500, ErrorBody(msg))]
  /\ awaited' = [awaited EXCEPT ![p] = DbNone]
  /\ seen' = [seen EXCEPT ![p] = Seen(FALSE, Undefined)]
  /\ UNCHANGED retryVars

\* POST /api/analyses (lines 133-141): destructuring a body that is undefined
\* or null throws (line 135); otherwise the document is built, validated and,
\* when the database is up, inserted (lines 136-137)
CreateAnalysis(p, body, up) ==
  LET id == ObjectIds[nextId + 1]
      a == NewAnalysis(id, Get(body, Key.imageName), Get(body, Key.result),
                       Get(body, Key.notes), Get(body, Key.referToDerm))
      ok == ResultRequiredOk(Get(a, Key.result)) /\ up
  IN /\ nextId < MaxRecords
     /\ IF IsNullish(body)
        THEN /\ ThrowBeforeAwait(p, "create", Request(body, NoFile, <<>>),
                                 DestructureMessage(body))
             /\ UNCHANGED <<store, nextId, origin>>
        ELSE /\ Operate(p, "create", Request(body, NoFile, <<>>),
                        IF ~ResultRequiredOk(Get(a, Key.result))
                        THEN DbError(ValidationErrorMessage)
                        ELSE IF ~up THEN DbError(NotConnectedMessage("create"))
                        ELSE DbDoc(Saved(a)),
                        Seen(FALSE, Undefined))
             /\ store' = IF ok THEN store \cup {Saved(a)} ELSE store
             /\ nextId' = IF ok THEN nextId + 1 ELSE nextId
             /\ origin' = IF ok THEN origin \cup {[id |-> id, body |-> body]} ELSE origin

\* what a query by :id comes back with when it changes the found document to
\* after (lines 159, 171, 183)
ById(k, id, up, after) ==
  IF ~IsObjectId(id) THEN DbError(CastErrorMessage(id))
  ELSE IF ~up THEN DbError(NotConnectedMessage(k))
  ELSE IF Found(id) = {} THEN DbNull
  ELSE DbDoc(after)

\* GET /api/analyses/:id (lines 157-159)
GetAnalysis(p, id, up) ==
  /\ Operate(p, "get", Request(Undefined, NoFile, id),
             ById("get", id, up, CHOOSE d \in Found(id) : TRUE),
             Seen(Found(id) # {}, OriginOf(id)))
  /\ UNCHANGED <<store, nextId, origin>>

\* PUT /api/analyses/:id (lines 169-171)
UpdateAnalysis(p, id, body, up) ==
  LET res == ById("update", id, up, ApplyUpdate(CHOOSE d \in Found(id) : TRUE, body))
  IN /\ Operate(p, "update", Request(body, NoFile, id), res,
                Seen(Found(id) # {}, OriginOf(id)))
     /\ store' = IF res.kind = "doc" THEN (store \ Found(id)) \cup {res.doc} ELSE store
     /\ origin' = IF res.kind = "doc" THEN {o \in origin : o.id # id} ELSE origin
     /\ UNCHANGED nextId

\* DELETE /api/analyses/:id (lines 181-183)
DeleteAnalysis(p, id, up) ==
  LET res == ById("delete", id, up, CHOOSE d \in Found(id) : TRUE)
  IN /\ Operate(p, "delete", Request(Undefined, NoFile, id), res,
                Seen(Found(id) # {}, OriginOf(id)))
     /\ store' = IF res.kind = "doc" THEN store \ Found(id) ELSE store
     /\ origin' = IF res.kind = "doc" THEN {o \in origin : o.id # id} ELSE origin
     /\ UNCHANGED nextId

\* what a CRUD handler sends once its operation has come back
\* (lines 138-141, 160-164, 172-176, 184-188)
ReplyFor(k, res) ==
  IF res.kind = "error" THEN ResJson(500, ErrorBody(res.msg))
  ELSE IF k = "create" THEN ResJson(200, AnalysisBody(res.doc))
  ELSE IF res.kind = "null" THEN NotFound
  ELSE IF k = "delete" THEN ResJson(200, Obj(<<Member(Key.success, JBool(TRUE))>>))
  ELSE ResJson(200, AnalysisBody(res.doc))

\* the handler runs on from its await and sends its response
Reply(p) ==
  /\ pc[p] = "resuming"
  /\ kind[p] \in {"create", "get", "update", "delete"}
  /\ pc' = [pc EXCEPT ![p] = "done"]
  /\ response' = [response EXCEPT ![p] = ReplyFor(kind[p], awaited[p])]
  /\ awaited' = [awaited EXCEPT ![p] = DbNone]
  /\ UNCHANGED <<kind, request, retryVars, store, nextId, seen, origin>>

(***************************************************************************)
(* Specifications.                                                         *)
(***************************************************************************)
Init ==
  /\ pc = [p \in Procs |-> "idle"]
  /\ kind = [p \in Procs |-> "none"]
  /\ request = [p \in Procs |-> NoRequest]
  /\ response = [p \in Procs |-> NoHttp]
  /\ params = [p \in Procs |-> Undefined]
  /\ retries = [p \in Procs |-> 0]
  /\ initialDelay = [p \in Procs |-> 0]
  /\ attempt = [p \in Procs |-> 0]
  /\ calls = [p \in Procs |-> 0]
  /\ delays = [p \in Procs |-> <<>>]
  /\ waits = [p \in Procs |-> <<>>]
  /\ outcome = [p \in Procs |-> NoOutcome]
  /\ store = {}
  /\ nextId = 0
  /\ awaited = [p \in Procs |-> DbNone]
  /\ seen = [p \in Procs |-> Seen(FALSE, Undefined)]
  /\ origin = {}

\* the model endpoints, with requests in flight together, one per slot
Next ==
  \E p \in Procs :
    \/ pc[p] = "idle" /\ \E body \in AssistantBodies : ReceiveAssistant(p, body)
    \/ pc[p] = "idle" /\ \E file \in Files : ReceiveAnalyze(p, file)
    \/ \E resp \in SampleResponses : ModelResolves(p, resp)
    \/ \E err \in Errors : ModelRejects(p, err)
    \/ TimerFires(p)
    \/ Respond(p)

Spec == Init /\ [][Next]_vars

\* the base delays of the direct calls, one below setTimeout's range and one
\* whose double is above it
BaseDelays == {0, 1, 1000, 1073741824}

\* direct calls of generateWithRetry(params, n, d), every n and d of the bounds
NextRetry ==
  \/ \E n \in 0..MaxRetries, d \in BaseDelays : Call(1, n, d)
  \/ \E resp \in SampleResponses : ModelResolves(1, resp)
  \/ \E err \in Errors : ModelRejects(1, err)
  \/ TimerFires(1)

SpecRetry == Init /\ [][NextRetry]_vars

\* one image analysis at a time whose first invocation resolves, over every response
NextShape ==
  \/ \E file \in {NoFile, Png} : ReceiveAnalyze(1, file)
  \/ pc[1] = "awaiting" /\ \E resp \in Responses(MaxLen) : ModelResolves(1, resp)
  \/ Respond(1)

SpecShape == Init /\ [][NextShape]_vars

\* the CRUD endpoints, with requests in flight together
NextStore ==
  \E p \in Procs :
    \/ \E body \in CreateBodies, up \in BOOLEAN : CreateAnalysis(p, body, up)
    \/ \E id \in RequestIds, up \in BOOLEAN : GetAnalysis(p, id, up)
    \/ \E id \in RequestIds, body \in UpdateBodies, up \in BOOLEAN :
         UpdateAnalysis(p, id, body, up)
    \/ \E id \in RequestIds, up \in BOOLEAN : DeleteAnalysis(p, id, up)
    \/ Reply(p)

SpecStore == Init /\ [][NextStore]_vars

(***************************************************************************)
(* Properties of generateWithRetry, checked on the direct calls            *)
(* (SpecRetry, slot 1).                                                    *)
(***************************************************************************)
HasThrown(p) == outcome[p].kind = "threw"
HasReturned(p) == outcome[p].kind = "returned"

\* C1: a call with retries = n >= 1 makes at most n invocations; it throws only
\* after exactly n invocations, all failed; it returns only after a successful
\* invocation, the k-th with k <= n, every one before it failed; once it has
\* thrown or returned nothing is pending, and after the n-th failure no timer
\* is started
C1_AttemptCounts ==
  LET n == retries[1] IN
  (kind[1] = "direct" /\ n >= 1) =>
    /\ pc[1] \in {"awaiting", "backoff", "done"}
    /\ 1 <= calls[1] /\ calls[1] <= n
    /\ attempt[1] = calls[1] - (IF pc[1] = "awaiting" \/ HasReturned(1) THEN 1 ELSE 0)
    /\ HasThrown(1) => calls[1] = n /\ pc[1] = "done" /\ outcome[1].err \in Errors
    /\ HasReturned(1) => pc[1] = "done" /\ outcome[1].resp \in SampleResponses
    /\ pc[1] = "backoff" => calls[1] < n
    /\ pc[1] = "done" <=> (HasThrown(1) \/ HasReturned(1))

C1_Witness ==
  kind[1] = "direct" /\ HasThrown(1) /\ retries[1] = MaxRetries /\ calls[1] = MaxRetries

Result(p) == Get(response[p].body, Key.result)
Answered(p) == pc[p] = "done"

\* all attempts of an image analysis failed and the request is answered
AnalysisFailed(p) == kind[p] = "analyze" /\ HasThrown(p) /\ Answered(p)

\* C3: an image analysis whose attempts all failed is answered 503 with
\* { success: false, error: "model unavailable", result: F }, F having diagnosis
\* "other" and refer_to_dermatologist false; F is the same object for any two
\* such requests, whatever file they carried and whatever error ended them
C3_FallbackIsConstant ==
  \A p \in Procs :
    AnalysisFailed(p) =>
      /\ response[p].status = 503
      /\ Get(response[p].body, Key.success) = JBool(FALSE)
      /\ Get(response[p].body, Key.error) = JStr(ModelUnavailable)
      /\ Len(response[p].body.m) = 3
      /\ Get(Result(p), Key.diagnosis) = JStr(Str("other"))
      /\ Get(Result(p), Key.refer_to_dermatologist) = JBool(FALSE)
      /\ \A q \in Procs : AnalysisFailed(q) => Result(q) = Result(p)

C3_Witness ==
  /\ AnalysisFailed(1) /\ AnalysisFailed(2)
  /\ request[1].file # request[2].file
  /\ outcome[1].err # outcome[2].err
  /\ response[1].status = 503

\* the request carries no prompt: no body, no prompt member, or a prompt that
\* is null, empty, 0 or false
LacksPrompt(p) ==
  \/ request[p].body.t # "obj"
  \/ Get(request[p].body, Key.prompt)
       \in {Undefined, JNull, JStr(<<>>), JNum(0), JBool(FALSE)}

\* the two bodies C4 names
C4_MissingPromptBody ==
  Obj(<<Member(Key.success, JBool(FALSE)), Member(Key.error, JStr(Str("Missing prompt")))>>)
C4_NoImageBody == Obj(<<Member(Key.error, JStr(Str("No image uploaded")))>>)

\* C4: a request without its required input is answered 400, with
\* { success: false, error: "Missing prompt" } resp. { error: "No image uploaded" },
\* and generateContent is never invoked for it
C4_MissingInput ==
  \A p \in Procs :
    /\ (kind[p] = "assistant" /\ LacksPrompt(p)) =>
         /\ response[p] = Http(400, C4_MissingPromptBody)
         /\ calls[p] = 0 /\ pc[p] = "done"
    /\ (kind[p] = "analyze" /\ ~request[p].file.present) =>
         /\ response[p] = Http(400, C4_NoImageBody)
         /\ calls[p] = 0 /\ pc[p] = "done"

C4_Witness ==
  /\ kind[1] = "assistant" /\ request[1].body = Obj(<<>>) /\ response[1].status = 400
  /\ kind[2] = "analyze" /\ ~request[2].file.present /\ response[2].status = 400

\* the request passed validation and reached generateWithRetry
Valid(p) ==
  \/ kind[p] = "assistant" /\ ~LacksPrompt(p)
  \/ kind[p] = "analyze" /\ request[p].file.present

\* C9: a valid request is answered only once its call has ended, and answered
\* 503 "model unavailable" exactly when its three invocations all failed; when
\* an attempt succeeds the answer is 200 with success true, and it is the same
\* for any two requests of one endpoint that succeeded with the same response,
\* however many attempts failed before
C9_OnlyExhaustionSurfaces ==
  \A p \in Procs :
    /\ (Valid(p) /\ ~Answered(p)) => response[p] = NoHttp
    /\ (Valid(p) /\ Answered(p)) =>
         /\ response[p].status \in {200, 503}
         /\ response[p].status = 503 <=>
              (calls[p] = DefaultRetries /\ attempt[p] = DefaultRetries /\ HasThrown(p))
         /\ response[p].status = 503 =>
              Get(response[p].body, Key.error) = JStr(ModelUnavailable)
         /\ HasReturned(p) =>
              /\ response[p].status = 200
              /\ Get(response[p].body, Key.success) = JBool(TRUE)
              /\ \A q \in Procs :
                   (kind[q] = kind[p] /\ Answered(q) /\ HasReturned(q)
                    /\ outcome[q].resp = outcome[p].resp)
                     => response[q] = response[p]

C9_Witness ==
  /\ kind[1] = "analyze" /\ kind[2] = "analyze"
  /\ Answered(1) /\ Answered(2)
  /\ HasReturned(1) /\ HasReturned(2)
  /\ calls[1] = 1 /\ calls[2] = 3
  /\ outcome[1].resp = outcome[2].resp
  /\ response[1].status = 200

\* the delays of k backoffs at the default base delay
RECURSIVE DefaultSchedule(_)
DefaultSchedule(k) ==
  IF k = 0 THEN <<>> ELSE Append(DefaultSchedule(k - 1), DefaultInitialDelay * Pow2(k - 1))

\* C10: a request suspended in its backoff leaves every other request able to
\* take its next step (be received, have its invocation resolve or reject, fire
\* its timer, be answered: Respond is enabled exactly where CanRespond holds,
\* its other conjuncts being assignments); and each request's attempt counter
\* and waits depend on its own invocations only: they are those of a request
\* running alone
C10_RequestsAreIndependent ==
  \A p \in Procs :
    /\ pc[p] = "backoff" =>
         \A q \in Procs \ {p} :
           /\ Free(q) => ENABLED (\E b \in AssistantBodies : ReceiveAssistant(q, b))
           /\ Free(q) => ENABLED (\E f \in Files : ReceiveAnalyze(q, f))
           /\ pc[q] = "awaiting" => ENABLED (\E r \in SampleResponses : ModelResolves(q, r))
           /\ pc[q] = "awaiting" => ENABLED (\E e \in Errors : ModelRejects(q, e))
           /\ pc[q] = "backoff" => ENABLED TimerFires(q)
           /\ pc[q] = "resuming" => CanRespond(q)
    /\ calls[p] > 0 =>
         /\ calls[p] <= DefaultRetries
         /\ attempt[p] = calls[p] - (IF pc[p] = "awaiting" \/ HasReturned(p) THEN 1 ELSE 0)
         /\ waits[p] = DefaultSchedule(IF pc[p] = "backoff" THEN calls[p] ELSE calls[p] - 1)
         /\ HasThrown(p) => calls[p] = DefaultRetries

C10_Witness ==
  /\ pc[1] = "backoff" /\ calls[1] = 2
  /\ Answered(2) /\ HasReturned(2) /\ calls[2] = 2 /\ waits[2] = <<1000>>

(***************************************************************************)
(* Properties of the success shaping of an image analysis (SpecShape).     *)
(***************************************************************************)
\* an image analysis whose invocation succeeded is answered
Shaped(p) == kind[p] = "analyze" /\ HasReturned(p) /\ Answered(p)

\* C5 as amended: the shaped text is the response's text when it has one and
\* the JSON serialisation of the whole response when it has none; the 200
\* response's result is what JSON.parse makes of the shaped text, as res.json
\* then writes it, when the shaped text parses as JSON, and { rawText: <the
\* shaped text> } when it does not.  So a response without text yields its own
\* content, not a value derived from a text; an undefined response, which has
\* no serialisation, yields {}; a numeral is read as the nearest double, and
\* one beyond the doubles arrives as null
C5_ResultShape ==
  Shaped(1) =>
    LET resp == outcome[1].resp
        shaped == IF resp.hasText THEN JStr(resp.text) ELSE Stringify(resp.rest)
        parsed == JSONParse(StringOf(shaped))
    IN /\ response[1].status = 200
       /\ Get(response[1].body, Key.success) = JBool(TRUE)
       /\ Result(1) = OnWire(IF parsed.ok THEN parsed.val
                             ELSE Obj(<<Member(Key.rawText, shaped)>>))
       /\ (~resp.hasText /\ resp.rest # Undefined) => Result(1) = resp.rest
       /\ (~resp.hasText /\ resp.rest = Undefined) => Result(1) = Obj(<<>>)
       /\ resp = TextResponse(Sample.kOne) => Result(1) = Obj(<<Member(Key.k, JNum(1))>>)
       /\ resp = TextResponse(Sample.h) => Result(1) = Obj(<<Member(Key.rawText, JStr(Sample.h))>>)
       /\ \A x \in NumberSamples : resp = TextResponse(x.text) => Result(1) = x.result

C5_Witness ==
  /\ Shaped(1)
  /\ outcome[1].resp = TextResponse(Sample.kOne)
  /\ Result(1) = Obj(<<Member(Key.k, JNum(1))>>)

\* C5 as claimed: the result is the parsed value of GenerationResult.text when
\* that parses, and { rawText: <the text> } otherwise (an absent text among
\* them), and never anything else
C5_OnlyFromText ==
  Shaped(1) =>
    LET resp == outcome[1].resp
        parsed == JSONParse(resp.text)
    IN Result(1) =
         OnWire(IF resp.hasText /\ parsed.ok THEN parsed.val
                ELSE Obj(<<Member(Key.rawText, IF resp.hasText THEN JStr(resp.text)
                                             ELSE Undefined)>>))

(***************************************************************************)
(* Properties of the CRUD endpoints (SpecStore).                           *)
(***************************************************************************)
Analysis(p) == Get(response[p].body, Key.analysis)
\* the database operation of the request was not refused for want of a connection
Connected(p) == awaited[p] # DbError(NotConnectedMessage(kind[p]))

\* C6: every stored document has a result, which is an object (a structured
\* object or a { rawText } wrapper)
C6_ResultAlwaysPresent ==
  \A d \in store : Has(d, Key.result) /\ Get(d, Key.result).t = "obj"

\* C7: a create that succeeds returns a document with an _id the store
\* generated; a get of an id created and neither updated nor deleted since
\* returns the created result, and referToDerm false when none was supplied
C7_CreateThenGet ==
  \A p \in Procs :
    /\ (kind[p] = "create" /\ Answered(p) /\ response[p].status = 200) =>
         \E i \in 1..nextId : Get(Analysis(p), Key.id) = JStr(ObjectIds[i])
    /\ (kind[p] = "get" /\ Answered(p) /\ response[p].status = 200
        /\ seen[p].from # Undefined) =>
         /\ Get(Analysis(p), Key.result) = Get(seen[p].from, Key.result)
         /\ ~Has(seen[p].from, Key.referToDerm) =>
              Get(Analysis(p), Key.referToDerm) = JBool(FALSE)

\* the body C8 names
C8_NotFoundBody ==
  Obj(<<Member(Key.success, JBool(FALSE)), Member(Key.error, JStr(Str("Not found")))>>)

\* C8: a delete of an id that names no stored document, whatever the id string
\* is, leaves the collection as it was and, the database being connected, is
\* answered 404 { success: false, error: "Not found" }
C8_DeleteOfAbsentIs404 ==
  [][\A p \in Procs :
       /\ (pc'[p] = "resuming" /\ pc[p] # "resuming" /\ kind'[p] = "delete"
           /\ ~seen'[p].existed) => store' = store
       /\ (pc[p] = "resuming" /\ pc'[p] = "done" /\ kind[p] = "delete"
           /\ ~seen[p].existed /\ Connected(p)) =>
            response'[p] = Http(404, C8_NotFoundBody)]_vars

====
